---- MODULE Spec2Model ----
\* Model of export_to_json.py: a one-shot script that dumps five tables of the
\* SQLite file norms_decoded.db into norms_data.json.
EXTENDS Integers, Sequences, FiniteSets, TLC

\* ------------------------------------------------------------------ bounds

\* Largest total number of rows in the database.
MaxRows == 2

\* Number of times the script is run, one run after the other.
MaxRuns == 2

\* ------------------------------------------------------------ source values

\* The table list with its first two names exchanged.
tablesReordered == <<"norm_resources", "norms", "rates", "projects", "boq_items">>

\* The fixed table list (line 9), in list order.
tables == <<"norms", "norm_resources", "rates", "projects", "boq_items">>

TableNames == {tables[k] : k \in 1..Len(tables)}

\* The Python values sqlite3 hands back for the five storage classes.
NullV == [kind |-> "null"]

IntV(n) == [kind |-> "integer", int |-> n]

RealV(t) == [kind |-> "real", tenths |-> t]

TextV(s) == [kind |-> "text", chars |-> s]

BlobV(b) == [kind |-> "blob", bytes |-> b]

\* Column names of a table, in declaration order (names are unique in a table).
Columns == <<"id", "name", "rate">>

\* Rows a table may hold; between them every storage class occurs.
SampleRows ==
    { <<IntV(7), TextV(<<"a">>), RealV(15)>>,
      <<NullV, BlobV(<<"a">>), IntV(0)>> }

RECURSIVE SeqsUpTo(_, _)
SeqsUpTo(S, n) ==
    IF n = 0 THEN {<<>>}
    ELSE LET shorter == SeqsUpTo(S, n - 1)
         IN  shorter \cup {Append(s, x) : s \in {q \in shorter : Len(q) = n - 1}, x \in S}

TableContents == {[cols |-> Columns, rows |-> rs] : rs \in SeqsUpTo(SampleRows, MaxRows)}

NoTables == [t \in {} |-> [cols |-> <<>>, rows |-> <<>>]]

\* The databases holding exactly the tables S, with n rows at most in all.
RECURSIVE SchemasOver(_, _)
SchemasOver(S, n) ==
    IF S = {} THEN {NoTables}
    ELSE LET t == CHOOSE x \in S : TRUE
         IN  UNION { { [x \in DOMAIN tb \cup {t} |-> IF x = t THEN c ELSE tb[x]]
                       : tb \in SchemasOver(S \ {t}, n - Len(c.rows)) }
                     : c \in {d \in TableContents : Len(d.rows) <= n} }

\* The table sets a database may lack: none, or any one of the five.
MissingChoices == {{}} \cup {{t} : t \in TableNames}

Schemas == UNION {SchemasOver(TableNames \ M, MaxRows) : M \in MissingChoices}

\* What may be found at the path norms_decoded.db when a run starts.
DbFiles ==
    { [kind |-> "absent", tables |-> NoTables],
      [kind |-> "unopenable", tables |-> NoTables],
      [kind |-> "garbage", tables |-> NoTables] }
    \cup {[kind |-> "valid", tables |-> tb] : tb \in Schemas}

\* Content of norms_data.json left by something older than the first run.
OldText == <<[tok |-> "old"]>>

OutFiles == { [exists |-> FALSE, text |-> <<>>], [exists |-> TRUE, text |-> OldText] }

\* ------------------------------------------------------- pure functions

\* sqlite3.connect on a path: opens the file read-write and creates an empty
\* database when nothing is there.
ConnectCreate(db) ==
    IF db.kind = "absent" THEN [kind |-> "valid", tables |-> NoTables] ELSE db

\* A query that treats a missing table as an empty one.
SelectAllLenient(db, t) ==
    [ok    |-> db.kind = "valid",
     cols  |-> IF db.kind = "valid" /\ t \in DOMAIN db.tables THEN db.tables[t].cols ELSE <<>>,
     rows  |-> IF db.kind = "valid" /\ t \in DOMAIN db.tables THEN db.tables[t].rows ELSE <<>>,
     after |-> db]

\* A statement that empties the table it reads.
SelectAllDeleting(db, t) ==
    [ok    |-> db.kind = "valid" /\ t \in DOMAIN db.tables,
     cols  |-> IF db.kind = "valid" /\ t \in DOMAIN db.tables THEN db.tables[t].cols ELSE <<>>,
     rows  |-> IF db.kind = "valid" /\ t \in DOMAIN db.tables THEN db.tables[t].rows ELSE <<>>,
     after |-> IF db.kind = "valid" /\ t \in DOMAIN db.tables
               THEN [db EXCEPT !.tables[t].rows = <<>>]
               ELSE db]

\* SELECT * FROM t: the result set, and the database after the statement.
SelectAll(db, t) ==
    [ok    |-> db.kind = "valid" /\ t \in DOMAIN db.tables,
     cols  |-> IF db.kind = "valid" /\ t \in DOMAIN db.tables THEN db.tables[t].cols ELSE <<>>,
     rows  |-> IF db.kind = "valid" /\ t \in DOMAIN db.tables THEN db.tables[t].rows ELSE <<>>,
     after |-> db]

\* A fetch that loses the first row of the result set.
FetchAllButFirst(cur) == IF cur.rows = <<>> THEN <<>> ELSE Tail(cur.rows)

\* cursor.fetchall(): every remaining row of the result set, in fetch order.
FetchAll(cur) == cur.rows

\* dict(row) for a sqlite3.Row: the columns in order, each with its value.
DictOfRow(cols, row) == [c \in 1..Len(cols) |-> [key |-> cols[c], value |-> row[c]]]

\* [dict(row) for row in rows]
DictsOfRows(cols, rs) == [j \in 1..Len(rs) |-> DictOfRow(cols, rs[j])]

\* d[k] = v on an insertion-ordered dict kept as a sequence of items.
DictSet(d, k, v) ==
    IF \E n \in 1..Len(d) : d[n].key = k
    THEN [n \in 1..Len(d) |-> IF d[n].key = k THEN [key |-> k, value |-> v] ELSE d[n]]
    ELSE Append(d, [key |-> k, value |-> v])

\* A store that leaves out a table without rows.
StoreRowsSkipEmpty(d, table, cols, rs) ==
    IF rs = <<>> THEN d ELSE DictSet(d, table, DictsOfRows(cols, rs))

\* data[table] = [dict(row) for row in rows]
StoreRows(d, table, cols, rs) == DictSet(d, table, DictsOfRows(cols, rs))

\* str(x) for a bytes object: b'...'
StrOf(v) == <<"b", "'">> \o v.bytes \o <<"'">>

\* json.dump without a default= hook: the value is refused.
DefaultRaises(v) == [json |-> "TypeError"]

\* json.dump's default= hook, here str: called for what json cannot encode.
Default(v) == [json |-> "string", chars |-> StrOf(v)]

\* The JSON value json.dump writes for a Python value.
JsonValue(v) ==
    CASE v.kind = "null" -> [json |-> "null"]
      [] v.kind = "integer" -> [json |-> "number", int |-> v.int]
      [] v.kind = "real" -> [json |-> "number", tenths |-> v.tenths]
      [] v.kind = "text" -> [json |-> "string", chars |-> v.chars]
      [] OTHER -> Default(v)

JsonObject(d) == [c \in 1..Len(d) |-> [key |-> d[c].key, value |-> JsonValue(d[c].value)]]

JsonArray(l) == [j \in 1..Len(l) |-> JsonObject(l[j])]

\* The pieces json.dump hands to f.write, in order, for the top-level dict.
JsonChunks(d) ==
    <<[tok |-> "{"]>>
    \o [n \in 1..Len(d) |-> [tok |-> "member", key |-> d[n].key, value |-> JsonArray(d[n].value)]]
    \o <<[tok |-> "}"]>>

\* A piece that holds a value json refused (TypeError: not JSON serializable).
Unserializable(chunk) ==
    /\ chunk.tok = "member"
    /\ \E j \in 1..Len(chunk.value) : \E c \in 1..Len(chunk.value[j]) :
          chunk.value[j][c].value.json = "TypeError"

\* open(path, 'a'): creates the file or keeps what it holds.
OpenForAppend(file) == [exists |-> TRUE, text |-> file.text]

\* open(path, 'w'): creates the file or truncates it to nothing.
OpenForWrite(file) == [exists |-> TRUE, text |-> <<>>]

\* A write whose piece never reaches the file.
WriteLost(file, chunk) == file

\* f.write(chunk)
WriteTo(file, chunk) == [file EXCEPT !.text = Append(@, chunk)]

\* ------------------------------------------------------------------- state

VARIABLES
    pc,          \* position of the run in the script
    runs,        \* number of runs started
    dbFile,      \* what is at norms_decoded.db
    outFile,     \* what is at norms_data.json
    conn,        \* "none", "open" or "closed"
    cursor,      \* result set of the last execute
    i,           \* index in tables of the loop variable table
    rows,        \* rows of the last fetchall
    data,        \* the export document
    f,           \* the output handle: "none", "open" or "closed"
    written,     \* pieces of the document written to f
    events,      \* console lines and I/O calls of this run, in order
    dbAtStart,   \* dbFile when this run started
    outAtStart,  \* outFile when this run started
    prevExport   \* norms_data.json as the latest earlier successful run left it

vars == <<pc, runs, dbFile, outFile, conn, cursor, i, rows, data, f, written,
          events, dbAtStart, outAtStart, prevExport>>

NoCursor == [ok |-> FALSE, cols |-> <<>>, rows |-> <<>>]

Init ==
    /\ pc = "start"
    /\ runs = 1
    /\ dbFile \in DbFiles
    /\ outFile \in OutFiles
    /\ conn = "none"
    /\ cursor = NoCursor
    /\ i = 1
    /\ rows = <<>>
    /\ data = <<>>
    /\ f = "none"
    /\ written = 0
    /\ events = <<>>
    /\ dbAtStart = dbFile
    /\ outAtStart = outFile
    /\ prevExport = [has |-> FALSE, text |-> <<>>]

\* An uncaught exception: the traceback is printed and the process ends.
Abort(type) ==
    /\ pc' = "aborted"
    /\ events' = Append(events, [e |-> "error", type |-> type])

\* line 4
Start ==
    /\ pc = "start"
    /\ pc' = "connect"
    /\ events' = Append(events, [e |-> "print_start"])
    /\ UNCHANGED <<runs, dbFile, outFile, conn, cursor, i, rows, data, f, written,
                   dbAtStart, outAtStart, prevExport>>

\* lines 5-10, the path can be opened
Connect ==
    /\ pc = "connect"
    /\ dbFile.kind # "unopenable"
    /\ dbFile' = ConnectCreate(dbFile)
    /\ conn' = "open"
    /\ events' = Append(events, [e |-> "connect"])
    /\ data' = <<>>
    /\ i' = 1
    /\ pc' = "execute"
    /\ UNCHANGED <<runs, outFile, cursor, rows, f, written, dbAtStart, outAtStart, prevExport>>

\* line 5, sqlite3.OperationalError: unable to open database file
ConnectFail ==
    /\ pc = "connect"
    /\ dbFile.kind = "unopenable"
    /\ Abort("OperationalError")
    /\ UNCHANGED <<runs, dbFile, outFile, conn, cursor, i, rows, data, f, written,
                   dbAtStart, outAtStart, prevExport>>

\* line 13, the query succeeds
Execute ==
    /\ pc = "execute"
    /\ i <= Len(tables)
    /\ LET r == SelectAll(dbFile, tables[i])
       IN  /\ r.ok
           /\ cursor' = [ok |-> TRUE, cols |-> r.cols, rows |-> r.rows]
           /\ dbFile' = r.after
    /\ events' = Append(events, [e |-> "query", table |-> tables[i]])
    /\ pc' = "fetch"
    /\ UNCHANGED <<runs, outFile, conn, i, rows, data, f, written, dbAtStart, outAtStart,
                   prevExport>>

\* line 13, no such table, or the file is not a database
ExecuteFail ==
    /\ pc = "execute"
    /\ i <= Len(tables)
    /\ LET r == SelectAll(dbFile, tables[i])
       IN  /\ ~r.ok
           /\ dbFile' = r.after
    /\ pc' = "aborted"
    /\ events' = events \o <<[e |-> "query", table |-> tables[i]],
                             [e |-> "error", type |-> "DatabaseError"]>>
    /\ UNCHANGED <<runs, outFile, conn, cursor, i, rows, data, f, written, dbAtStart,
                   outAtStart, prevExport>>

\* line 14
Fetch ==
    /\ pc = "fetch"
    /\ rows' = FetchAll(cursor)
    /\ pc' = "store"
    /\ UNCHANGED <<runs, dbFile, outFile, conn, cursor, i, data, f, written, events,
                   dbAtStart, outAtStart, prevExport>>

\* line 15
Store ==
    /\ pc = "store"
    /\ data' = StoreRows(data, tables[i], cursor.cols, rows)
    /\ pc' = "progress"
    /\ UNCHANGED <<runs, dbFile, outFile, conn, cursor, i, rows, f, written, events,
                   dbAtStart, outAtStart, prevExport>>

\* line 16, and the loop's step to the next table
Progress ==
    /\ pc = "progress"
    /\ events' = Append(events, [e |-> "print_rows", table |-> tables[i], count |-> Len(rows)])
    /\ i' = i + 1
    /\ pc' = IF i + 1 <= Len(tables) THEN "execute" ELSE "open"
    /\ UNCHANGED <<runs, dbFile, outFile, conn, cursor, rows, data, f, written,
                   dbAtStart, outAtStart, prevExport>>

\* line 18
OpenOut ==
    /\ pc = "open"
    /\ outFile' = OpenForWrite(outFile)
    /\ f' = "open"
    /\ written' = 0
    /\ events' = Append(events, [e |-> "open_out"])
    /\ pc' = "dump"
    /\ UNCHANGED <<runs, dbFile, conn, cursor, i, rows, data, dbAtStart, outAtStart,
                   prevExport>>

\* line 18, PermissionError and the like: nothing is opened
OpenOutFail ==
    /\ pc = "open"
    /\ Abort("OSError")
    /\ UNCHANGED <<runs, dbFile, outFile, conn, cursor, i, rows, data, f, written,
                   dbAtStart, outAtStart, prevExport>>

\* line 19, one piece of the document; a value json cannot encode raises
\* TypeError, and leaving the with block closes f
DumpChunk ==
    /\ pc = "dump"
    /\ written < Len(JsonChunks(data))
    /\ LET chunk == JsonChunks(data)[written + 1]
       IN  IF Unserializable(chunk)
           THEN /\ Abort("TypeError")
                /\ f' = "closed"
                /\ UNCHANGED <<outFile, written>>
           ELSE /\ outFile' = WriteTo(outFile, chunk)
                /\ written' = written + 1
                /\ UNCHANGED <<pc, events, f>>
    /\ UNCHANGED <<runs, dbFile, conn, cursor, i, rows, data, dbAtStart, outAtStart,
                   prevExport>>

\* line 19, the write fails (disk full, I/O error): leaving the with block closes f
DumpFail ==
    /\ pc = "dump"
    /\ written < Len(JsonChunks(data))
    /\ Abort("OSError")
    /\ f' = "closed"
    /\ UNCHANGED <<runs, dbFile, outFile, conn, cursor, i, rows, data, written,
                   dbAtStart, outAtStart, prevExport>>

\* end of the with block of lines 18-19
CloseOut ==
    /\ pc = "dump"
    /\ written = Len(JsonChunks(data))
    /\ f' = "closed"
    /\ events' = Append(events, [e |-> "write"])
    /\ pc' = "close"
    /\ UNCHANGED <<runs, dbFile, outFile, conn, cursor, i, rows, data, written,
                   dbAtStart, outAtStart, prevExport>>

\* line 21
CloseConn ==
    /\ pc = "close"
    /\ conn' = "closed"
    /\ events' = Append(events, [e |-> "close"])
    /\ pc' = "finish"
    /\ UNCHANGED <<runs, dbFile, outFile, cursor, i, rows, data, f, written,
                   dbAtStart, outAtStart, prevExport>>

\* line 22
Finish ==
    /\ pc = "finish"
    /\ events' = Append(events, [e |-> "print_done"])
    /\ pc' = "done"
    /\ UNCHANGED <<runs, dbFile, outFile, conn, cursor, i, rows, data, f, written,
                   dbAtStart, outAtStart, prevExport>>

\* The script is run again: a new process, the two files as the last one left them.
Rerun ==
    /\ pc \in {"done", "aborted"}
    /\ runs < MaxRuns
    /\ runs' = runs + 1
    /\ pc' = "start"
    /\ conn' = "none"
    /\ cursor' = NoCursor
    /\ i' = 1
    /\ rows' = <<>>
    /\ data' = <<>>
    /\ f' = "none"
    /\ written' = 0
    /\ events' = <<>>
    /\ dbAtStart' = dbFile
    /\ outAtStart' = outFile
    /\ prevExport' = IF pc = "done" THEN [has |-> TRUE, text |-> outFile.text] ELSE prevExport
    /\ UNCHANGED <<dbFile, outFile>>

Next ==
    \/ Start
    \/ Connect
    \/ ConnectFail
    \/ Execute
    \/ ExecuteFail
    \/ Fetch
    \/ Store
    \/ Progress
    \/ OpenOut
    \/ OpenOutFail
    \/ DumpChunk
    \/ DumpFail
    \/ CloseOut
    \/ CloseConn
    \/ Finish
    \/ Rerun

Spec == Init /\ [][Next]_vars

\* ----------------------------------------------------------------- claims

MemberChunks(text) == SelectSeq(text, LAMBDA c : c.tok = "member")

MissingAtStart ==
    \/ dbAtStart.kind = "absent"
    \/ dbAtStart.kind = "valid" /\ \E t \in TableNames : t \notin DOMAIN dbAtStart.tables

\* The document a database exports to, stated from the database alone:
\* one member per table in list order, one object per row, one field per column.
DocumentOf(db) ==
    <<[tok |-> "{"]>>
    \o [n \in 1..Len(tables) |->
          [tok |-> "member", key |-> tables[n],
           value |-> [j \in 1..Len(db.tables[tables[n]].rows) |->
                        [c \in 1..Len(db.tables[tables[n]].cols) |->
                           [key |-> db.tables[tables[n]].cols[c],
                            value |-> JsonValue(db.tables[tables[n]].rows[j][c])]]]]]
    \o <<[tok |-> "}"]>>

\* C1: after a run that completes, norms_data.json is one object with exactly
\* the five keys norms, norm_resources, rates, projects and boq_items, each
\* mapped to an array, and an empty table is present with an empty array.
C1_FiveKeys ==
    pc = "done" =>
        LET text == outFile.text
            ms == MemberChunks(text)
        IN  /\ outFile.exists
            /\ Len(text) = Len(ms) + 2
            /\ text[1].tok = "{"
            /\ text[Len(text)].tok = "}"
            /\ Len(ms) = 5
            /\ {ms[n].key : n \in 1..Len(ms)} = TableNames
            /\ \A n \in 1..Len(ms) :
                  /\ DOMAIN ms[n].value = 1..Len(ms[n].value)
                  /\ dbFile.tables[ms[n].key].rows = <<>> => ms[n].value = <<>>

C1_Witness ==
    /\ pc = "done"
    /\ \E t \in TableNames : dbFile.tables[t].rows = <<>>
    /\ \E t \in TableNames : dbFile.tables[t].rows # <<>>

\* C2: the array of a table has as many elements as the table had rows when it
\* was read, one object per row in fetch order, and the count in the table's
\* progress line is that length.
C2_RowCounts ==
    /\ \A n \in 1..Len(data) :
          LET src == dbFile.tables[data[n].key].rows
          IN  /\ Len(data[n].value) = Len(src)
              /\ \A j \in 1..Len(src) : \A c \in 1..Len(src[j]) :
                    data[n].value[j][c].value = src[j][c]
    /\ \A k \in 1..Len(events) :
          events[k].e = "print_rows" =>
              /\ events[k].count = Len(dbFile.tables[events[k].table].rows)
              /\ \E n \in 1..Len(data) :
                    /\ data[n].key = events[k].table
                    /\ Len(data[n].value) = events[k].count
    /\ \A m \in 1..Len(outFile.text) :
          outFile.text[m].tok = "member" =>
              Len(outFile.text[m].value) = Len(dbFile.tables[outFile.text[m].key].rows)

C2_Witness ==
    /\ pc = "done"
    /\ \E n \in 1..Len(data) :
          /\ Len(data[n].value) = 2
          /\ data[n].value[1] # data[n].value[2]

\* C3: when the database file is absent or a table of the list is missing, the
\* run never gets to the output file: norms_data.json stays absent, or keeps
\* the content it had before the run.
C3_OutputUntouched ==
    MissingAtStart =>
        /\ outFile = outAtStart
        /\ pc \notin {"open", "dump", "close", "finish", "done"}
        /\ f = "none"

C3_Witness ==
    /\ pc = "aborted"
    /\ dbAtStart.kind = "valid"
    /\ DOMAIN dbAtStart.tables = TableNames \ {"boq_items"}
    /\ Len(data) = 4
    /\ outAtStart.exists
    /\ outFile = outAtStart

\* C4: when norms_decoded.db does not exist the run fails in the open itself,
\* before any query, and leaves the file system as it was.
C4_FailsAtConnect ==
    dbAtStart.kind = "absent" =>
        /\ dbFile.kind = "absent"
        /\ conn = "none"
        /\ \A k \in 1..Len(events) : events[k].e # "query"

\* C5: a run that opened the connection has closed it when the process ends,
\* also when a query or the write aborts the run.
C5_ClosedOnEveryExit ==
    (pc \in {"done", "aborted"} /\ \E k \in 1..Len(events) : events[k].e = "connect")
        => conn = "closed"

\* C6: norms_data.json always holds what it held before the run, or the
\* complete document, never an empty or truncated one.
C6_NoPartialFile ==
    \/ outFile = outAtStart
    \/ outFile.exists /\ outFile.text = JsonChunks(data) /\ Len(data) = Len(tables)

IsPrefix(a, b) == Len(a) <= Len(b) /\ \A k \in 1..Len(a) : a[k] = b[k]

\* C6 as amended: norms_data.json holds what it held before the run until the
\* output file is opened; from then on it holds a prefix, possibly empty, of
\* the complete document, the whole of it once the write has completed; the
\* handle is closed when the process ends, also after a failed write.
C6_PrefixUntilWritten ==
    /\ f = "none" => outFile = outAtStart
    /\ f # "none" =>
          /\ outFile.exists
          /\ IsPrefix(outFile.text, JsonChunks(data))
    /\ pc \in {"close", "finish", "done"} =>
          /\ outFile.text = JsonChunks(data)
          /\ Len(data) = Len(tables)
    /\ pc \in {"done", "aborted"} => f # "open"

C6_Witness ==
    /\ pc = "aborted"
    /\ f = "closed"
    /\ outAtStart.text = OldText
    /\ Len(outFile.text) > 1
    /\ Len(outFile.text) < Len(JsonChunks(data))

\* C7: the content after a successful run is the document of the database,
\* whatever norms_data.json held before, and a later successful run against
\* the unchanged database leaves the same content.
C7_Idempotent ==
    pc = "done" =>
        /\ outFile.text = DocumentOf(dbFile)
        /\ prevExport.has => outFile.text = prevExport.text

C7_Witness ==
    /\ pc = "done"
    /\ prevExport.has
    /\ prevExport.text # OldText
    /\ outFile.text = prevExport.text
    /\ \E t \in TableNames : dbFile.tables[t].rows # <<>>

\* C8: every column of every exported row is a field named after the column;
\* null, integer, real and text values are exported unchanged, a binary value
\* as its string rendering, and serialization raises no TypeError.
C8_Values ==
    /\ \A m \in 1..Len(outFile.text) :
          outFile.text[m].tok = "member" =>
              LET tb == dbFile.tables[outFile.text[m].key]
                  arr == outFile.text[m].value
              IN  \A j \in 1..Len(arr) :
                      /\ Len(arr[j]) = Len(tb.cols)
                      /\ \A c \in 1..Len(tb.cols) :
                            LET src == tb.rows[j][c]
                                out == arr[j][c]
                            IN  /\ out.key = tb.cols[c]
                                /\ src.kind = "null" => out.value.json = "null"
                                /\ src.kind = "integer" =>
                                      out.value.json = "number" /\ out.value.int = src.int
                                /\ src.kind = "real" =>
                                      out.value.json = "number" /\ out.value.tenths = src.tenths
                                /\ src.kind = "text" =>
                                      out.value.json = "string" /\ out.value.chars = src.chars
                                /\ src.kind = "blob" =>
                                      /\ out.value.json = "string"
                                      /\ out.value.chars = <<"b", "'">> \o src.bytes \o <<"'">>
    /\ \A k \in 1..Len(events) :
          events[k].e = "error" => events[k].type # "TypeError"

C8_Witness ==
    /\ pc = "done"
    /\ \E t \in TableNames : \E j \in 1..Len(dbFile.tables[t].rows) :
          dbFile.tables[t].rows[j][2].kind = "blob"
    /\ \E t \in TableNames : \E j \in 1..Len(dbFile.tables[t].rows) :
          dbFile.tables[t].rows[j][3].kind = "real"

EventKind(ev) == IF ev.e \in {"query", "print_rows"} THEN <<ev.e, ev.table>> ELSE <<ev.e, "">>

\* The table order the claim states.
ClaimedOrder == <<"norms", "norm_resources", "rates", "projects", "boq_items">>

ExpectedKinds ==
    <<<<"print_start", "">>, <<"connect", "">>>>
    \o [k \in 1..(2 * Len(ClaimedOrder)) |->
          IF k % 2 = 1 THEN <<"query", ClaimedOrder[(k + 1) \div 2]>>
          ELSE <<"print_rows", ClaimedOrder[k \div 2]>>]
    \o <<<<"open_out", "">>, <<"write", "">>, <<"close", "">>, <<"print_done", "">>>>

\* C9: the events of a run come in the fixed order start notice, then per table
\* in list order one query and its progress line, then the file write, the
\* connection close and the completion notice; the completion notice follows
\* five reads, the complete file and the close, and no aborted run emits it.
C9_EventOrder ==
    /\ Len(events) <= Len(ExpectedKinds) + 1
    /\ \A k \in 1..Len(events) :
          IF events[k].e = "error"
          THEN k = Len(events) /\ pc = "aborted"
          ELSE k <= Len(ExpectedKinds) /\ EventKind(events[k]) = ExpectedKinds[k]
    /\ (\E k \in 1..Len(events) : events[k].e = "print_done") =>
          /\ pc = "done"
          /\ Len(data) = Len(ClaimedOrder)
          /\ outFile.exists /\ outFile.text = JsonChunks(data)
          /\ f = "closed"
          /\ conn = "closed"
    /\ pc = "aborted" =>
          /\ events # <<>> /\ events[Len(events)].e = "error"
          /\ \A k \in 1..Len(events) : events[k].e # "print_done"

C9_Witness ==
    /\ pc = "done"
    /\ Len(events) = Len(ExpectedKinds)
    /\ events[Len(events)].e = "print_done"

\* C10: a run only reads the database: no step changes the rows of a table,
\* creates a table or drops one.
C10_ReadOnly == [][dbFile'.tables = dbFile.tables]_vars

C10_Witness ==
    /\ pc = "done"
    /\ runs = 2
    /\ \E t \in TableNames : Len(dbFile.tables[t].rows) = 2

====
